---------------------------- MODULE Spec2Model ----------------------------
(***************************************************************************)
(* Gemini API gateway (edge function onRequest and its route handlers) and  *)
(* the browser-side request adapter (services/geminiService.ts).            *)
(*                                                                          *)
(* JavaScript values are tagged pairs <<tag, payload>>.  A string is a      *)
(* sequence of fragments; where the code looks inside a string (slice,      *)
(* substring, startsWith, the data-URI regular expression) the fragments    *)
(* are single characters, and text handed to JSON.parse is a sequence of    *)
(* JSON tokens.                                                             *)
(***************************************************************************)
EXTENDS Integers, Sequences, FiniteSets, TLC

(* ------------------------------ bounds --------------------------------- *)

\* longest classify input drawn (the fallback title cuts at 15)
MaxInputLen == 17
\* longest suffix appended to a credential prefix
MaxKeyTail == 5
\* longest chat history drawn
MaxHistory == 2

(* --------------------------- JavaScript values ------------------------- *)

Undef == <<"undef", <<>>>>
Null == <<"null", <<>>>>
Bool(b) == <<"bool", <<b>>>>
Num(n) == <<"num", <<n>>>>
Str(s) == <<"str", s>>
Arr(a) == <<"arr", a>>
Obj(f) == <<"obj", f>>

Tag(x) == x[1]
Val(x) == x[2]
EmptyObj == Obj(<<>>)

\* ToBoolean: undefined, null, false, 0 and "" are falsy, all else truthy
Truthy(x) ==
  CASE Tag(x) = "undef" -> FALSE
    [] Tag(x) = "null" -> FALSE
    [] Tag(x) = "bool" -> Val(x)[1]
    [] Tag(x) = "num" -> Val(x)[1] # 0
    [] Tag(x) = "str" -> Val(x) # <<>>
    [] OTHER -> TRUE

\* o.name for a value the code reads a property of; reading a property of
\* undefined or null is a TypeError, which callers test with Nullish first
Nullish(x) == Tag(x) \in {"undef", "null"}

Get(x, name) ==
  IF Tag(x) = "obj" /\ name \in DOMAIN Val(x) THEN Val(x)[name] ELSE Undef

\* x.length
LengthOf(x) ==
  IF Tag(x) \in {"str", "arr"} THEN Num(Len(Val(x))) ELSE Get(x, "length")

\* a || b
OrElse(a, b) == IF Truthy(a) THEN a ELSE b

\* JSON.stringify followed by JSON.parse on the receiving side: members whose
\* value is undefined are dropped, undefined array elements become null
RECURSIVE JsonWire(_)
JsonWire(x) ==
  CASE Tag(x) = "obj" ->
         LET f == Val(x)
             keep == {n \in DOMAIN f : Tag(f[n]) # "undef"}
         IN  Obj([n \in keep |-> JsonWire(f[n])])
    [] Tag(x) = "arr" ->
         Arr([i \in 1..Len(Val(x)) |->
                IF Tag(Val(x)[i]) = "undef" THEN Null ELSE JsonWire(Val(x)[i])])
    [] OTHER -> x

(* ------------------------------- strings -------------------------------- *)

\* s.slice(0, n) and s.substring(0, n) for 0 <= n
Slice0(s, n) == SubSeq(s, 1, IF n < Len(s) THEN n ELSE Len(s))

\* s.substring(from) with from counted from 0; a negative from is clamped to 0
SubstringFrom(s, from) == SubSeq(s, (IF from < 0 THEN 0 ELSE from) + 1, Len(s))

\* s.startsWith(p)
StartsWith(s, p) == Len(s) >= Len(p) /\ SubSeq(s, 1, Len(p)) = p

WhitespaceChars == {" ", "\t", "\n", "\r"}
LineTerminators == {"\n", "\r"}

\* /\s/.test(s)
HasWhitespace(s) == \E i \in 1..Len(s) : s[i] \in WhitespaceChars

\* whether t occurs in s as a contiguous run
Occurs(t, s) ==
  \E i \in 0..(Len(s) - Len(t)) : SubSeq(s, i + 1, i + Len(t)) = t

DataPrefix == <<"d", "a", "t", "a", ":">>
Base64Mark == <<";", "b", "a", "s", "e", "6", "4", ",">>

\* .+ : at least one character, none a line terminator
DotPlus(s) == Len(s) >= 1 /\ \A i \in 1..Len(s) : s[i] \notin LineTerminators

\* positions where ";base64," may start in a match of /^data:(.+);base64,(.+)$/
MatchSplits(s) ==
  {i \in 1..Len(s) :
     /\ StartsWith(s, DataPrefix)
     /\ i > Len(DataPrefix) + 1
     /\ i + Len(Base64Mark) <= Len(s)
     /\ SubSeq(s, i, i + Len(Base64Mark) - 1) = Base64Mark
     /\ DotPlus(SubSeq(s, Len(DataPrefix) + 1, i - 1))
     /\ DotPlus(SubSeq(s, i + Len(Base64Mark), Len(s)))}

NoMatch == <<"nomatch", <<>>, <<>>>>

\* the groups of the match that splits s at the last of `splits`: the first
\* group of the expression is greedy
GreedyMatch(s, splits) ==
  IF splits = {} THEN NoMatch
  ELSE LET i == CHOOSE j \in splits : \A k \in splits : k <= j
       IN  <<"match", SubSeq(s, Len(DataPrefix) + 1, i - 1),
                      SubSeq(s, i + Len(Base64Mark), Len(s))>>

\* s.match(/^data:(.+);base64,(.+)$/)
MatchDataUri(s) == GreedyMatch(s, MatchSplits(s))

\* String(x) as a template literal `${x}` renders it
ToStr(x) ==
  CASE Tag(x) = "str" -> Val(x)
    [] Tag(x) = "num" -> <<ToString(Val(x)[1])>>
    [] Tag(x) = "bool" -> <<ToString(Val(x)[1])>>
    [] Tag(x) = "undef" -> <<"undefined">>
    [] Tag(x) = "null" -> <<"null">>
    [] Tag(x) = "obj" -> <<"[object Object]">>
    [] OTHER -> <<"[array]">>

(* ------------------------------ JSON.parse ------------------------------ *)

\* the string tokens of the JSON texts drawn, with their contents
Unquote ==
  ("\"type\"" :> "type") @@ ("\"title\"" :> "title") @@ ("\"tags\"" :> "tags")
  @@ ("\"IMAGE\"" :> "IMAGE") @@ ("\"TEXT\"" :> "TEXT") @@ ("\"image\"" :> "image")
  @@ ("\"Red fox\"" :> "Red fox") @@ ("\"fox\"" :> "fox") @@ ("\"snow\"" :> "snow")

NumberTokens == ("0" :> 0) @@ ("5" :> 5)

ParseFail == <<FALSE, Undef, 0>>

RECURSIVE ParseValue(_, _)
RECURSIVE ParseElements(_, _, _)
RECURSIVE ParseMembers(_, _, _)

\* one JSON value starting at token i: <<ok, value, index after it>>
ParseValue(t, i) ==
  IF i > Len(t) THEN ParseFail
  ELSE CASE t[i] = "null" -> <<TRUE, Null, i + 1>>
         [] t[i] = "true" -> <<TRUE, Bool(TRUE), i + 1>>
         [] t[i] = "false" -> <<TRUE, Bool(FALSE), i + 1>>
         [] t[i] \in DOMAIN NumberTokens -> <<TRUE, Num(NumberTokens[t[i]]), i + 1>>
         [] t[i] \in DOMAIN Unquote -> <<TRUE, Str(<<Unquote[t[i]]>>), i + 1>>
         [] t[i] = "[" ->
              IF i + 1 <= Len(t) /\ t[i + 1] = "]" THEN <<TRUE, Arr(<<>>), i + 2>>
              ELSE ParseElements(t, i + 1, <<>>)
         [] t[i] = "{" ->
              IF i + 1 <= Len(t) /\ t[i + 1] = "}" THEN <<TRUE, EmptyObj, i + 2>>
              ELSE ParseMembers(t, i + 1, <<>>)
         [] OTHER -> ParseFail

\* the elements of an array, the first at token i, up to the closing bracket
ParseElements(t, i, acc) ==
  LET r == ParseValue(t, i)
  IN  IF ~r[1] \/ r[3] > Len(t) THEN ParseFail
      ELSE CASE t[r[3]] = "]" -> <<TRUE, Arr(Append(acc, r[2])), r[3] + 1>>
             [] t[r[3]] = "," -> ParseElements(t, r[3] + 1, Append(acc, r[2]))
             [] OTHER -> ParseFail

\* the members of an object, the first key at token i; a repeated key keeps
\* its last value
ParseMembers(t, i, acc) ==
  IF i + 1 > Len(t) \/ t[i] \notin DOMAIN Unquote \/ t[i + 1] # ":" THEN ParseFail
  ELSE LET r == ParseValue(t, i + 2)
           now == (Unquote[t[i]] :> r[2]) @@ acc
       IN  IF ~r[1] \/ r[3] > Len(t) THEN ParseFail
           ELSE CASE t[r[3]] = "}" -> <<TRUE, Obj(now), r[3] + 1>>
                  [] t[r[3]] = "," -> ParseMembers(t, r[3] + 1, now)
                  [] OTHER -> ParseFail

Threw(msg) == <<"throw", Str(msg)>>
Ok(v) == <<"ok", v>>
IsThrow(r) == r[1] = "throw"

\* evaluation continues with f on the value of r, unless r is a thrown error,
\* which propagates
Then(r, f(_)) == IF r[1] = "throw" THEN r ELSE f(r[2])
\* const v = ...; f(v)
With(v, f(_)) == f(v)
\* try { t } catch { handler }
OrCatch(t, handler) == IF t[1] = "throw" THEN handler ELSE t

\* JSON.parse(x): x is converted to a string first, so a number or a boolean
\* parses to itself; a syntax error is thrown
JsonParse(x) ==
  CASE Tag(x) = "str" ->
         LET r == ParseValue(Val(x), 1)
         IN  IF r[1] /\ r[3] = Len(Val(x)) + 1 THEN Ok(r[2])
             ELSE Threw(<<"Unexpected token in JSON">>)
    [] Tag(x) \in {"num", "bool", "null"} -> Ok(x)
    [] OTHER -> Threw(<<"Unexpected token in JSON">>)

(* ------------------------- upstream and responses ----------------------- *)

TextEndpoint == <<"/models/gemini-3-pro-preview:generateContent">>
ImageEndpoint == <<"/models/gemini-3-pro-image-preview:generateContent">>

\* an HTTP response as its receiver reads it: body is the parsed JSON body,
\* BadJson when the body is not JSON, and for a non-2xx upstream answer the
\* text that response.text() gives
BadJson == <<"badjson", <<>>>>
Response(status, body) == [kind |-> "response", status |-> status, body |-> body]
\* the handler's promise rejected: no response was built by this code
Rejected(error) == [kind |-> "rejected", status |-> 0, body |-> error]
\* fetch itself rejected (transport failure)
FetchFailed == [kind |-> "netfail", status |-> 0, body |-> Str(<<"fetch failed">>)]
NoResponse == [kind |-> "none", status |-> 0, body |-> Undef]

\* response.ok
IsOk(r) == r.status >= 200 /\ r.status <= 299

\* jsonResponse(data, status): the body is JSON.stringify(data)
jsonResponse(data, status) == Response(status, JsonWire(data))

\* errorResponse(message, status)
errorResponse(message, status) == jsonResponse(Obj([error |-> Str(message)]), status)

\* a faulty variant for comparison: response.ok is not looked at
callGeminiAPIUnchecked(reply) ==
  CASE reply.kind = "netfail" -> <<"throw", reply.body>>
    [] reply.body = BadJson -> <<"throw", <<"str", <<"Unexpected token in JSON">>>>>>
    [] OTHER -> <<"ok", reply.body>>

\* callGeminiAPI once fetch has settled with `reply`: the parsed body, or the
\* error thrown
callGeminiAPI(reply) ==
  CASE reply.kind = "netfail" -> <<"throw", reply.body>>
    [] ~IsOk(reply) ->
         Threw(<<"Gemini API error: ", ToString(reply.status), " - ">> \o ToStr(reply.body))
    [] reply.body = BadJson -> Threw(<<"Unexpected token in JSON">>)
    [] OTHER -> Ok(reply.body)

\* the request callGeminiAPI sends: the credential goes into the URL
GeminiCall(endpoint, apiKey, body) ==
  [endpoint |-> endpoint, key |-> apiKey, payload |-> JsonWire(body)]

\* x[0]
Index0(x) ==
  CASE Tag(x) = "arr" -> IF Len(Val(x)) > 0 THEN Val(x)[1] ELSE Undef
    [] Tag(x) = "str" -> IF Len(Val(x)) > 0 THEN Str(<<Val(x)[1]>>) ELSE Undef
    [] OTHER -> Get(x, "0")

\* x?.name and x?.[0]
OptGet(x, name) == IF Nullish(x) THEN Undef ELSE Get(x, name)
OptIndex0(x) == IF Nullish(x) THEN Undef ELSE Index0(x)

\* candidates?.[0]?.content?.parts
CandidateParts(candidates) == OptGet(OptGet(OptIndex0(candidates), "content"), "parts")

\* result.candidates?.[0]?.content?.parts?.[0]?.text for a result that is
\* not null
CandidateText(result) ==
  OptGet(OptIndex0(CandidateParts(Get(result, "candidates"))), "text")

TypeError == Threw(<<"TypeError">>)

(* --------------------------- gateway handlers --------------------------- *)
(* A handler runs in two steps: up to its fetch (Pre: a response, a thrown  *)
(* error, or the outbound call), and from the settled fetch on (Post).      *)

Respond(r) == <<"respond", r>>
Call(c) == <<"call", c>>

\* the tag the fallback classification carries (a fixed literal in the code)
PlaceholderTag == Str(<<"new-prompt">>)
Ellipsis == <<".", ".", ".">>

\* input.slice(0, n)
SliceOf(input, n) ==
  CASE Tag(input) = "str" -> Ok(Str(Slice0(Val(input), n)))
    [] Tag(input) = "arr" -> Ok(Arr(Slice0(Val(input), n)))
    [] OTHER -> TypeError

ClassifyPrompt(input) ==
  Str(<<"Analyze the following user prompt: \"">> \o ToStr(input) \o <<"\". ...">>)

ClassifyPayload(input) ==
  Obj([contents |-> Arr(<<Obj([parts |-> Arr(<<Obj([text |-> ClassifyPrompt(input)])>>)])>>),
       generationConfig |-> Obj([responseMimeType |-> Str(<<"application/json">>)])])

\* a faulty variant for comparison: the dots are always appended
fallbackTitleDotted(s) == Str(Slice0(s, 15) \o Ellipsis)

\* input.slice(0, 15) + (input.length > 15 ? '...' : '')
fallbackTitle(s) == Str(Slice0(s, 15) \o (IF Len(s) > 15 THEN Ellipsis ELSE <<>>))

\* the catch block of handleClassify
classifyFallback(input) ==
  IF Tag(input) # "str" THEN TypeError
  ELSE Respond(jsonResponse(Obj(
         [type |-> Str(<<"TEXT">>),
          title |-> fallbackTitle(Val(input)),
          tags |-> Arr(<<PlaceholderTag>>)]), 200))

handleClassifyPre(requestBody, apiKey) ==
  IF Nullish(requestBody) THEN TypeError
  ELSE IF ~Truthy(Get(requestBody, "input"))
       THEN Respond(errorResponse(<<"Missing required field: input">>, 400))
       ELSE Call(GeminiCall(TextEndpoint, apiKey, ClassifyPayload(Get(requestBody, "input"))))

\* parsed.type === 'IMAGE' ? 'IMAGE' : 'TEXT'
typeOf(parsed) ==
  IF Get(parsed, "type") = Str(<<"IMAGE">>) THEN Str(<<"IMAGE">>) ELSE Str(<<"TEXT">>)

\* parsed.title || input.slice(0, 10)
titleOf(parsed, input) ==
  IF Truthy(Get(parsed, "title")) THEN Ok(Get(parsed, "title")) ELSE SliceOf(input, 10)

\* the object built from the parsed classification
classifyTriple(input, parsed) ==
  IF Nullish(parsed) THEN TypeError
  ELSE Then(titleOf(parsed, input), LAMBDA title :
         Ok(Obj([type |-> typeOf(parsed), title |-> title,
                 tags |-> OrElse(Get(parsed, "tags"), Arr(<<>>))])))

\* the try block of handleClassify after the fetch: the response, or the
\* error its catch receives
classifyTry(input, reply) ==
  Then(callGeminiAPI(reply), LAMBDA result :
    IF Nullish(result) THEN TypeError
    ELSE With(CandidateText(result), LAMBDA responseText :
           IF ~Truthy(responseText) THEN Threw(<<"Empty response from Gemini">>)
           ELSE Then(JsonParse(responseText), LAMBDA parsed :
                  Then(classifyTriple(input, parsed), LAMBDA triple :
                    Respond(jsonResponse(triple, 200))))))

handleClassifyPost(requestBody, reply) ==
  OrCatch(classifyTry(Get(requestBody, "input"), reply),
          classifyFallback(Get(requestBody, "input")))

InlinePart(m) ==
  Obj([inlineData |-> Obj([mimeType |-> Str(m[2]), data |-> Str(m[3])])])

\* if (matches) parts.push({inlineData: ...}): the parts pushed
pushed(matches) == IF matches = NoMatch THEN <<>> ELSE <<InlinePart(matches)>>

\* att.data.match(...) and the push that follows: the parts added (none or
\* one), or the TypeError of calling match on something that has none
attachmentPart(att) ==
  IF Nullish(att) \/ Tag(Get(att, "data")) # "str" THEN TypeError
  ELSE Ok(pushed(MatchDataUri(Val(Get(att, "data")))))

RECURSIVE PartsFrom(_, _)
PartsFrom(items, i) ==
  IF i > Len(items) THEN Ok(<<>>)
  ELSE Then(attachmentPart(items[i]), LAMBDA one :
         Then(PartsFrom(items, i + 1), LAMBDA rest : Ok(one \o rest)))

\* what for (const att of x) iterates over: the elements of an array, the
\* characters of a string
ItemsOf(x) ==
  IF Tag(x) = "arr" THEN Val(x) ELSE [i \in 1..Len(Val(x)) |-> Str(<<Val(x)[i]>>)]

\* x.length > 0
NonEmpty(len) == Tag(len) = "num" /\ Val(len)[1] > 0

\* if (attachments && attachments.length > 0) for (const att of attachments)
attachmentParts(attachments) ==
  IF ~Truthy(attachments) \/ ~NonEmpty(LengthOf(attachments)) THEN Ok(<<>>)
  ELSE IF Tag(attachments) \notin {"arr", "str"} THEN TypeError
  ELSE PartsFrom(ItemsOf(attachments), 1)

\* a faulty variant for comparison: the role is passed through
roleOfVerbatim(h) == Get(h, "role")

\* h.role === 'user' ? 'user' : 'model'
roleOf(h) == IF Get(h, "role") = Str(<<"user">>) THEN Str(<<"user">>) ELSE Str(<<"model">>)

\* one history entry as an upstream turn
historyTurn(h) ==
  IF Nullish(h) THEN TypeError
  ELSE Then(attachmentParts(Get(h, "attachments")), LAMBDA extra :
         Ok(Obj([role |-> roleOf(h), parts |-> Arr(<<Obj([text |-> Get(h, "text")])>> \o extra)])))

RECURSIVE TurnsFrom(_, _)
TurnsFrom(entries, i) ==
  IF i > Len(entries) THEN Ok(<<>>)
  ELSE Then(historyTurn(entries[i]), LAMBDA one :
         Then(TurnsFrom(entries, i + 1), LAMBDA rest : Ok(<<one>> \o rest)))

\* if (history && Array.isArray(history)) for (const h of history)
historyTurns(history) ==
  IF Truthy(history) /\ Tag(history) = "arr" THEN TurnsFrom(Val(history), 1) ELSE Ok(<<>>)

\* the contents array of a chat call: the history's turns, then the current
\* message as a user turn
chatContents(history, message, attachments) ==
  Then(historyTurns(history), LAMBDA past :
    Then(attachmentParts(attachments), LAMBDA extra :
      Ok(Arr(past \o
             <<Obj([role |-> Str(<<"user">>),
                    parts |-> Arr(<<Obj([text |-> OrElse(message, Str(<<>>))])>> \o extra)])>>))))

\* the parts of a generate-image call: the prompt, then the reference image
\* when it is given and matches
imageParts(prompt, referenceImage) ==
  IF ~Truthy(referenceImage) THEN Ok(<<Obj([text |-> prompt])>>)
  ELSE IF Tag(referenceImage) # "str" THEN TypeError
  ELSE Ok(<<Obj([text |-> prompt])>> \o pushed(MatchDataUri(Val(referenceImage))))

imagePayload(parts) ==
  Obj([contents |-> Arr(<<Obj([parts |-> Arr(parts)])>>),
       generationConfig |-> Obj([responseModalities |-> Arr(<<Str(<<"image">>), Str(<<"text">>)>>)])])

handleGenerateImagePre(requestBody, apiKey) ==
  IF Nullish(requestBody) THEN TypeError
  ELSE IF ~Truthy(Get(requestBody, "prompt"))
       THEN Respond(errorResponse(<<"Missing required field: prompt">>, 400))
       ELSE Then(imageParts(Get(requestBody, "prompt"), Get(requestBody, "referenceImage")),
                 LAMBDA parts : Call(GeminiCall(ImageEndpoint, apiKey, imagePayload(parts))))

\* `data:${inlineData.mimeType};base64,${inlineData.data}`
dataUrl(inlineData) ==
  Str(DataPrefix \o ToStr(Get(inlineData, "mimeType")) \o Base64Mark
      \o ToStr(Get(inlineData, "data")))

RECURSIVE FirstInline(_, _)
\* for (const part of outputParts) if (part.inlineData) return ...: the data
\* URI of the first part that has inline data
FirstInline(parts, i) ==
  IF i > Len(parts) THEN Threw(<<"No image data returned from Gemini">>)
  ELSE IF Nullish(parts[i]) THEN TypeError
  ELSE IF Truthy(Get(parts[i], "inlineData")) THEN Ok(dataUrl(Get(parts[i], "inlineData")))
  ELSE FirstInline(parts, i + 1)

\* the loop over outputParts = ... || []
imageOfParts(outputParts) ==
  CASE Tag(outputParts) = "arr" -> FirstInline(Val(outputParts), 1)
    [] Tag(outputParts) = "str" -> Threw(<<"No image data returned from Gemini">>)
    [] OTHER -> TypeError

\* the image of a generateContent result
imageOf(result) ==
  IF Nullish(result) THEN TypeError
  ELSE imageOfParts(OrElse(CandidateParts(Get(result, "candidates")), Arr(<<>>)))

\* catch (e) { return errorResponse(`${prefix}${e.message}`) }
CatchAs(t, prefix) ==
  IF t[1] = "throw" THEN Respond(errorResponse(prefix \o ToStr(t[2]), 500)) ELSE t

handleGenerateImagePost(requestBody, reply) ==
  CatchAs(Then(callGeminiAPI(reply), LAMBDA result :
            Then(imageOf(result), LAMBDA url :
              Respond(jsonResponse(Obj([imageUrl |-> url]), 200)))),
          <<"Image generation failed: ">>)

\* a faulty variant for comparison: the empty attachment list is taken as content
chatInvalidNoLength(message, attachments) == ~Truthy(message) /\ ~Truthy(attachments)

\* !message && (!attachments || attachments.length === 0)
chatInvalid(message, attachments) ==
  ~Truthy(message) /\ (~Truthy(attachments) \/ LengthOf(attachments) = Num(0))

handleChatPre(requestBody, apiKey) ==
  IF Nullish(requestBody) THEN TypeError
  ELSE IF chatInvalid(Get(requestBody, "message"), Get(requestBody, "attachments"))
       THEN Respond(errorResponse(<<"Missing required field: message or attachments">>, 400))
       ELSE Then(chatContents(Get(requestBody, "history"), Get(requestBody, "message"),
                              Get(requestBody, "attachments")),
                 LAMBDA contents :
                   Call(GeminiCall(TextEndpoint, apiKey, Obj([contents |-> contents]))))

\* a faulty variant for comparison: a missing text is an error
textOfRequired(result) ==
  IF Nullish(result) THEN <<"throw", <<"str", <<"TypeError">>>>>>
  ELSE IF Truthy(CandidateText(result)) THEN <<"ok", CandidateText(result)>>
  ELSE <<"throw", <<"str", <<"Empty response from Gemini">>>>>>

\* result.candidates?.[0]?.content?.parts?.[0]?.text of a fetched result
textOf(result) == IF Nullish(result) THEN TypeError ELSE Ok(CandidateText(result))

handleChatPost(requestBody, reply) ==
  CatchAs(Then(callGeminiAPI(reply), LAMBDA result :
            Then(textOf(result), LAMBDA responseText :
              Respond(jsonResponse(Obj([text |-> OrElse(responseText, Str(<<>>))]), 200)))),
          <<"Chat failed: ">>)

\* the rewriting instruction sent for a video prompt; JSON.stringify(settings
\* || {}) is written into it
VideoSystemPrompt(originalPrompt, settings) ==
  Str(<<"Rewrite the following image prompt ... Original Prompt: \"">> \o ToStr(originalPrompt)
      \o <<"\" Apply these video settings: ">>
      \o (IF Truthy(settings) THEN <<"<settings>">> ELSE <<"{}">>) \o <<" ...">>)

VideoPayload(originalPrompt, settings) ==
  Obj([contents |-> Arr(<<Obj([parts |-> Arr(<<Obj(
         [text |-> VideoSystemPrompt(originalPrompt, settings)])>>)])>>)])

handleVideoPromptPre(requestBody, apiKey) ==
  IF Nullish(requestBody) THEN TypeError
  ELSE IF ~Truthy(Get(requestBody, "prompt"))
       THEN Respond(errorResponse(<<"Missing required field: prompt">>, 400))
       ELSE Call(GeminiCall(TextEndpoint, apiKey,
                   VideoPayload(Get(requestBody, "prompt"), Get(requestBody, "settings"))))

handleVideoPromptPost(requestBody, reply) ==
  CatchAs(Then(callGeminiAPI(reply), LAMBDA result :
            Then(textOf(result), LAMBDA responseText :
              Respond(jsonResponse(
                Obj([videoPrompt |-> OrElse(responseText, Get(requestBody, "prompt"))]), 200)))),
          <<"Video prompt conversion failed: ">>)

KeyPrefix == <<"A", "I", "z", "a">>

\* a faulty variant for comparison: one character more of the tail
keyPreviewLong(key) == Slice0(key, 4) \o Ellipsis \o SubstringFrom(key, Len(key) - 5)

\* `${apiKey.substring(0, 4)}...${apiKey.substring(apiKey.length - 4)}`
keyPreview(key) == Slice0(key, 4) \o Ellipsis \o SubstringFrom(key, Len(key) - 4)

\* a faulty variant for comparison: whitespace is not looked for
formatStatusPrefixOnly(key) ==
  IF StartsWith(key, KeyPrefix) THEN Str(<<"valid_format">>) ELSE Str(<<"invalid_format">>)

\* isValidFormat && !hasWhitespace ? 'valid_format' : 'invalid_format'
formatStatus(key) ==
  IF StartsWith(key, KeyPrefix) /\ ~HasWhitespace(key)
  THEN Str(<<"valid_format">>) ELSE Str(<<"invalid_format">>)

handleHealth(apiKey) ==
  IF ~Truthy(apiKey)
  THEN jsonResponse(Obj([status |-> Str(<<"missing">>), length |-> Num(0),
                         preview |-> Str(<<"N/A">>),
                         message |-> Str(<<"API Key is not configured">>)]), 200)
  ELSE jsonResponse(Obj(
         [status |-> formatStatus(Val(apiKey)),
          length |-> Num(Len(Val(apiKey))),
          preview |-> Str(keyPreview(Val(apiKey))),
          hasWhitespace |-> Bool(HasWhitespace(Val(apiKey))),
          message |-> IF StartsWith(Val(apiKey), KeyPrefix)
                      THEN Str(<<"API Key format looks valid">>)
                      ELSE Str(<<"API Key format may be invalid">>)]), 200)

(* ------------------------------- onRequest ------------------------------ *)

RECURSIVE JoinSlash(_)
\* segments.join('/')
JoinSlash(segments) ==
  IF Len(segments) = 0 THEN <<>>
  ELSE IF Len(segments) = 1 THEN <<segments[1]>>
  ELSE <<segments[1], "/">> \o JoinSlash(Tail(segments))

\* params.default?.join('/') || ''
PathOf(req) == JoinSlash(req.segments)

PostRoutes == {<<"classify">>, <<"generate-image">>, <<"chat">>, <<"video-prompt">>}
KnownRoutes == PostRoutes \cup {<<"health">>}

\* the switch of onRequest for a request whose body has been read
dispatch(path, method, body, apiKey) ==
  IF path \in PostRoutes /\ method # "POST"
  THEN Respond(errorResponse(<<"Method not allowed">>, 405))
  ELSE CASE path = <<"classify">> -> handleClassifyPre(body, apiKey)
         [] path = <<"generate-image">> -> handleGenerateImagePre(body, apiKey)
         [] path = <<"chat">> -> handleChatPre(body, apiKey)
         [] path = <<"video-prompt">> -> handleVideoPromptPre(body, apiKey)
         [] OTHER -> Respond(errorResponse(<<"Unknown route: /api/gemini/">> \o path, 404))

\* onRequest up to the handler's fetch.  The handler's promise is returned
\* without await, so an error thrown inside a handler does not reach the
\* catch of onRequest: the promise onRequest returns rejects.
onRequestPre(req, apiKey) ==
  IF req.method = "OPTIONS" THEN Respond(Response(204, Null))
  ELSE IF PathOf(req) = <<"health">> /\ req.method = "GET" THEN Respond(handleHealth(apiKey))
  ELSE IF ~Truthy(apiKey) THEN Respond(errorResponse(<<"API Key is not configured">>, 500))
  ELSE IF req.method = "POST" /\ req.body = BadJson
       THEN Respond(errorResponse(<<"Invalid JSON body">>, 400))
  ELSE dispatch(PathOf(req), req.method, IF req.method = "POST" THEN req.body ELSE EmptyObj, apiKey)

\* the handler that was waiting for its fetch resumes with the reply
onRequestPost(req, reply) ==
  CASE PathOf(req) = <<"classify">> -> handleClassifyPost(req.body, reply)
    [] PathOf(req) = <<"generate-image">> -> handleGenerateImagePost(req.body, reply)
    [] PathOf(req) = <<"chat">> -> handleChatPost(req.body, reply)
    [] OTHER -> handleVideoPromptPost(req.body, reply)

\* what the caller of onRequest gets from a settled handler step
Settled(step) == IF IsThrow(step) THEN Rejected(step[2]) ELSE step[2]

(* ----------------------------- client adapter --------------------------- *)
(* An operation is [name, a, b, c]: its name and arguments.  Each runs in   *)
(* two steps around its single fetch, like a handler.                       *)

Returned(v) == <<"returned", v>>
Thrown(e) == <<"thrown", e>>
NoResult == <<"none", Undef>>
Operation(name, a, b, c) == [name |-> name, a |-> a, b |-> b, c |-> c]

\* callGenerateContent once fetch has settled with `reply`
callGenerateContent(reply) ==
  CASE reply.kind = "netfail" -> <<"throw", reply.body>>
    [] ~IsOk(reply) ->
         Threw(<<"Gemini API error: ", ToString(reply.status), " - ">> \o ToStr(reply.body))
    [] reply.body = BadJson -> Threw(<<"Unexpected token in JSON">>)
    [] OTHER -> Ok(reply.body)

\* the request callGenerateContent sends: no credential in the URL
DirectCall(endpoint, body) == [endpoint |-> endpoint, key |-> Undef, payload |-> JsonWire(body)]

\* result?.candidates?.[0]?.content?.parts?.[0]?.text || ""
extractCandidateText(result) ==
  OrElse(OptGet(OptIndex0(CandidateParts(OptGet(result, "candidates"))), "text"), Str(<<>>))

\* the catch blocks of classifyPrompt
clientFallback(input) ==
  IF Tag(input) # "str" THEN Thrown(TypeError[2])
  ELSE Returned(Obj(
         [type |-> Str(<<"TEXT">>),
          title |-> fallbackTitle(Val(input)),
          tags |-> Arr(<<PlaceholderTag>>)]))

\* the object classifyPrompt returns from a parsed classification
clientTriple(input, parsed) ==
  IF Nullish(parsed) THEN TypeError
  ELSE Then(titleOf(parsed, input), LAMBDA title :
         Ok(Obj([type |-> typeOf(parsed), title |-> title,
                 tags |-> OrElse(Get(parsed, "tags"), Arr(<<>>))])))

\* a value the operation returns, or the error its catch receives
ReturnOr(t, handler) == IF t[1] = "throw" THEN handler ELSE Returned(t[2])
\* a value the operation returns, or the error it throws to its caller
ReturnOrThrow(t) == IF t[1] = "throw" THEN Thrown(t[2]) ELSE Returned(t[2])

classifyPromptDirect(input, reply) ==
  ReturnOr(Then(callGenerateContent(reply), LAMBDA result :
             With(extractCandidateText(result), LAMBDA responseText :
               IF ~Truthy(responseText) THEN Threw(<<"Empty response from Gemini">>)
               ELSE Then(JsonParse(responseText), LAMBDA parsed : clientTriple(input, parsed)))),
           clientFallback(input))

classifyPromptProxy(input, resp) ==
  ReturnOr(IF resp.kind = "netfail" \/ ~IsOk(resp) \/ resp.body = BadJson THEN TypeError
           ELSE clientTriple(input, resp.body),
           clientFallback(input))

\* if (!response.ok) { const errorData = await response.json();
\*                     throw new Error(errorData.error || fallback) }
proxyFailure(resp, fallback) ==
  IF resp.body = BadJson THEN Thrown(Str(<<"Unexpected token in JSON">>))
  ELSE IF Nullish(resp.body) THEN Thrown(TypeError[2])
  ELSE Thrown(OrElse(Get(resp.body, "error"), Str(fallback)))

\* a faulty variant for comparison: response.ok is not looked at
proxyMemberLenient(resp, member, fallback) ==
  IF resp.kind = "netfail" THEN <<"thrown", resp.body>>
  ELSE IF resp.body = BadJson THEN <<"thrown", <<"str", <<"Unexpected token in JSON">>>>>>
  ELSE IF Nullish(resp.body) THEN <<"thrown", <<"str", <<"TypeError">>>>>>
  ELSE <<"returned", Get(resp.body, member)>>

\* a proxy-mode operation after its fetch: it throws on a transport failure
\* or a non-2xx answer, and returns the named member of the body otherwise
proxyMember(resp, member, fallback) ==
  IF resp.kind = "netfail" THEN Thrown(resp.body)
  ELSE IF ~IsOk(resp) THEN proxyFailure(resp, fallback)
  ELSE IF resp.body = BadJson THEN Thrown(Str(<<"Unexpected token in JSON">>))
  ELSE IF Nullish(resp.body) THEN Thrown(TypeError[2])
  ELSE Returned(Get(resp.body, member))

generateImageDirect(reply) ==
  ReturnOrThrow(Then(callGenerateContent(reply), LAMBDA result :
    imageOfParts(OrElse(CandidateParts(OptGet(result, "candidates")), Arr(<<>>)))))

convertToVideoPromptDirect(originalPrompt, reply) ==
  ReturnOrThrow(Then(callGenerateContent(reply), LAMBDA result :
    Ok(OrElse(extractCandidateText(result), originalPrompt))))

sendChatMessageDirect(reply) ==
  ReturnOrThrow(Then(callGenerateContent(reply), LAMBDA result :
    Ok(extractCandidateText(result))))

KeyInfo(status, preview, message) ==
  Obj([status |-> Str(<<status>>), length |-> Num(0), preview |-> Str(<<preview>>),
       message |-> message])

\* the object getApiKeyInfo builds from Boolean(extractCandidateText(result))
gatewayInfo(ok) ==
  IF ok THEN KeyInfo("valid_format", "gateway", Str(<<"Gateway reachable">>))
  ELSE KeyInfo("invalid_format", "N/A", Str(<<"Gateway response empty">>))

\* the object its catch builds from the error
unreachableInfo(t) == KeyInfo("missing", "N/A", OrElse(t[2], Str(<<"Gateway unreachable">>)))

getApiKeyInfoDirect(reply) ==
  With(callGenerateContent(reply), LAMBDA r :
    Returned(IF r[1] = "throw" THEN unreachableInfo(r)
             ELSE gatewayInfo(Truthy(extractCandidateText(r[2])))))

getApiKeyInfoProxy(resp) ==
  IF resp.kind = "netfail" \/ ~IsOk(resp) \/ resp.body = BadJson
  THEN Returned(KeyInfo("error", "N/A", Str(<<"Unable to connect to API">>)))
  ELSE Returned(resp.body)

\* direct-gateway mode up to the fetch: the call made, or the error thrown
\* before it
clientDirectPre(o) ==
  CASE o.name = "classifyPrompt" -> Call(DirectCall(TextEndpoint, ClassifyPayload(o.a)))
    [] o.name = "generateImage" ->
         Then(imageParts(o.a, o.b), LAMBDA parts :
           Call(DirectCall(ImageEndpoint, imagePayload(parts))))
    [] o.name = "convertToVideoPrompt" ->
         Call(DirectCall(TextEndpoint, VideoPayload(o.a, o.b)))
    [] o.name = "sendChatMessage" ->
         Then(chatContents(o.a, o.b, o.c), LAMBDA contents :
           Call(DirectCall(TextEndpoint, Obj([contents |-> contents]))))
    [] OTHER ->
         Call(DirectCall(TextEndpoint, Obj(
           [contents |-> Arr(<<Obj([parts |-> Arr(<<Obj([text |-> Str(<<"ping">>)])>>)])>>),
            generationConfig |-> Obj([maxOutputTokens |-> Num(1)])])))

\* direct-gateway mode from the settled fetch on
clientDirectPost(o, reply) ==
  CASE o.name = "classifyPrompt" -> classifyPromptDirect(o.a, reply)
    [] o.name = "generateImage" -> generateImageDirect(reply)
    [] o.name = "convertToVideoPrompt" -> convertToVideoPromptDirect(o.a, reply)
    [] o.name = "sendChatMessage" -> sendChatMessageDirect(reply)
    [] OTHER -> getApiKeyInfoDirect(reply)

\* same-origin proxy mode: the request sent to the gateway
clientProxyRequest(o) ==
  CASE o.name = "classifyPrompt" ->
         [method |-> "POST", segments |-> <<"classify">>, body |-> JsonWire(Obj([input |-> o.a]))]
    [] o.name = "generateImage" ->
         [method |-> "POST", segments |-> <<"generate-image">>,
          body |-> JsonWire(Obj([prompt |-> o.a, referenceImage |-> o.b]))]
    [] o.name = "convertToVideoPrompt" ->
         [method |-> "POST", segments |-> <<"video-prompt">>,
          body |-> JsonWire(Obj([prompt |-> o.a, settings |-> o.b]))]
    [] o.name = "sendChatMessage" ->
         [method |-> "POST", segments |-> <<"chat">>,
          body |-> JsonWire(Obj([history |-> o.a, message |-> o.b, attachments |-> o.c]))]
    [] OTHER -> [method |-> "GET", segments |-> <<"health">>, body |-> Undef]

\* same-origin proxy mode from the settled fetch on
clientProxyPost(o, resp) ==
  CASE o.name = "classifyPrompt" -> classifyPromptProxy(o.a, resp)
    [] o.name = "generateImage" -> proxyMember(resp, "imageUrl", <<"Image generation failed">>)
    [] o.name = "convertToVideoPrompt" ->
         proxyMember(resp, "videoPrompt", <<"Video prompt conversion failed">>)
    [] o.name = "sendChatMessage" -> proxyMember(resp, "text", <<"Chat request failed">>)
    [] OTHER -> getApiKeyInfoProxy(resp)

(* ------------------------------ inputs drawn ---------------------------- *)

\* a text of n characters
InputText(n) == [i \in 1..n |-> IF i % 2 = 1 THEN "p" ELSE "q"]

Texts == {Str(InputText(n)) : n \in 0..MaxInputLen}

\* credentials: a head (the prefix, or something close to it) and a tail of
\* plain characters with at most one whitespace character in it
KeyHeads == {<<>>, KeyPrefix, <<"A", "I", "z">>, <<"a", "i", "z", "a">>}
KeyTails ==
  {[i \in 1..n |-> "k"] : n \in 0..MaxKeyTail}
  \cup {[i \in 1..n |-> IF i = j THEN w ELSE "k"] :
          n \in 1..MaxKeyTail, j \in 1..MaxKeyTail, w \in {" ", "\t"}}
Keys == {Undef} \cup {Str(h \o t) : h \in KeyHeads, t \in KeyTails}

GoodKey == Str(KeyPrefix \o <<"k", "k", "k", "k", "k">>)
\* the configurations routes other than health are drawn with
CoreKeys == {Undef, GoodKey}

\* data URIs: every combination of a prefix, a media type, a marker and a
\* payload, most of them malformed
Uris ==
  {a \o b \o c \o d :
     a \in {DataPrefix, <<>>, <<"D", "a", "t", "a", ":">>, <<"x">> \o DataPrefix},
     b \in {<<>>, <<"m">>, <<"m", "\n">>, <<"m">> \o Base64Mark \o <<"n">>},
     c \in {Base64Mark, <<";", "b", "a", "s", "e", "6", "4">>, <<",">>},
     d \in {<<>>, <<"Q">>, <<"Q", "\n">>, <<"Q", "=">>}}

GoodUri == Str(DataPrefix \o <<"m">> \o Base64Mark \o <<"Q">>)
BadUri == Str(<<"m">> \o Base64Mark \o <<"Q">>)

Attachment(data) == Obj([mimeType |-> Str(<<"m">>), data |-> data])
\* attachment lists: absent, empty, well-formed, malformed, without data, with
\* data that is not a string
AttachmentLists ==
  {Undef, Arr(<<>>), Arr(<<Attachment(GoodUri)>>), Arr(<<Attachment(BadUri), Attachment(GoodUri)>>),
   Arr(<<Obj([mimeType |-> Str(<<"m">>)])>>), Arr(<<Attachment(Num(7))>>)}

HistoryEntries ==
  {Obj([role |-> Str(<<"user">>), text |-> Str(<<"hi">>)]),
   Obj([role |-> Str(<<"model">>), text |-> Str(<<"yo">>)]),
   Obj([role |-> Str(<<"system">>), text |-> Str(<<"be brief">>)]),
   Obj([text |-> Str(<<"anon">>)]),
   Obj([role |-> Str(<<"user">>), text |-> Str(<<"see">>),
        attachments |-> Arr(<<Attachment(GoodUri), Attachment(BadUri)>>)]),
   Obj([role |-> Str(<<"user">>), text |-> Str(<<"see">>),
        attachments |-> Arr(<<Obj([mimeType |-> Str(<<"m">>)])>>)])}

RECURSIVE SeqsUpTo(_, _)
\* the sequences over S of length at most n
SeqsUpTo(S, n) ==
  IF n = 0 THEN {<<>>}
  ELSE LET shorter == SeqsUpTo(S, n - 1)
       IN  shorter \cup {Append(q, x) : q \in shorter, x \in S}

Histories == {Undef, Str(<<"not an array">>)} \cup {Arr(h) : h \in SeqsUpTo(HistoryEntries, MaxHistory)}
Messages == {Undef, Str(<<>>), Str(<<"hello">>)}

Methods == {"GET", "POST", "OPTIONS", "DELETE"}
SegmentLists ==
  {<<>>, <<"classify">>, <<"generate-image">>, <<"chat">>, <<"video-prompt">>, <<"health">>,
   <<"models">>, <<"chat", "stream">>}

HttpRequest(method, segments, body) == [method |-> method, segments |-> segments, body |-> body]
Post(segment, body) == HttpRequest("POST", <<segment>>, body)

\* a body every POST route accepts
\* a body carrying every field a route reads, and a credential of the
\* client's own that no route reads
ClientKey == Str(<<"A", "I", "z", "a", "c", "l", "i", "e", "n", "t">>)
FullBody ==
  Obj([input |-> Str(<<"p", "q">>), prompt |-> Str(<<"p", "q">>), message |-> Str(<<"hello">>),
       apiKey |-> ClientKey])
RoutingBodies == {BadJson, Null, EmptyObj, FullBody}

\* the invocations of onRequest drawn: {request, env.GEMINI_API_KEY}
RoutingCalls ==
  {<<HttpRequest(m, g, b), k>> : m \in Methods, g \in SegmentLists, b \in RoutingBodies, k \in CoreKeys}
HealthCalls == {<<HttpRequest("GET", <<"health">>, Undef), k>> : k \in Keys}
ClassifyCalls ==
  {<<Post("classify", Obj([input |-> x])), GoodKey>> : x \in Texts \cup {Num(7), Null}}
ImageCalls ==
  {<<Post("generate-image", Obj([prompt |-> x, referenceImage |-> r])), GoodKey>> :
     x \in {Str(<<>>), Str(<<"a red fox in snow">>)},
     r \in {Undef, Str(<<>>), Num(7)} \cup {Str(u) : u \in Uris}}
ChatCalls ==
  {<<Post("chat", JsonWire(Obj([history |-> h, message |-> m, attachments |-> a]))), GoodKey>> :
     h \in Histories, m \in Messages, a \in AttachmentLists}
VideoCalls ==
  {<<Post("video-prompt", JsonWire(Obj([prompt |-> x, settings |-> g]))), GoodKey>> :
     x \in {Undef, Str(<<>>), Str(<<"a red fox in snow">>)},
     g \in {Undef, Obj([duration |-> Num(5)])}}
GatewayCalls ==
  RoutingCalls \cup HealthCalls \cup ClassifyCalls \cup ImageCalls \cup ChatCalls \cup VideoCalls

\* what the upstream may answer
TextPart(t) == Obj([text |-> t])
Candidates(parts) == Obj([candidates |-> Arr(<<Obj([content |-> Obj([parts |-> parts])])>>)])
ImagePart == Obj([inlineData |-> Obj([mimeType |-> Str(<<"image/png">>), data |-> Str(<<"iVBOR">>)])])

JsonTexts ==
  {<<>>, <<"h", "i">>, <<"null">>, <<"5">>, <<"{", "}">>, <<"[", "]">>,
   <<"{", "\"type\"", ":", "\"IMAGE\"", ",", "\"title\"", ":", "\"Red fox\"", ",",
     "\"tags\"", ":", "[", "\"fox\"", ",", "\"snow\"", "]", "}">>,
   <<"{", "\"type\"", ":", "\"TEXT\"", ",", "\"title\"", ":", "\"Red fox\"", ",",
     "\"tags\"", ":", "[", "\"fox\"", "]", "}">>,
   <<"{", "\"type\"", ":", "\"image\"", "}">>,
   <<"{", "\"type\"", ":", "\"IMAGE\"", ",", "\"title\"", ":", "5", ",", "\"tags\"", ":", "\"fox\"", "}">>,
   <<"{", "\"type\"", ":", "\"IMAGE\"", ",">>}

ResultBodies ==
  {Null, EmptyObj, Obj([candidates |-> Arr(<<>>)]), Candidates(Arr(<<>>)),
   Candidates(Arr(<<ImagePart>>)), Candidates(Arr(<<TextPart(Str(<<"here it is">>)), ImagePart>>)),
   Candidates(Arr(<<Null>>)), Candidates(Num(5)), Candidates(Arr(<<TextPart(Num(5))>>))}
  \cup {Candidates(Arr(<<TextPart(Str(t))>>)) : t \in JsonTexts}

Replies ==
  {FetchFailed, Response(400, Str(<<"bad request">>)), Response(503, Str(<<"overloaded">>)),
   Response(200, BadJson)}
  \cup {Response(200, b) : b \in ResultBodies}

\* what the hosting platform may answer a caller when the promise of
\* onRequest rejects: an error page, an empty JSON error, a dropped connection
PlatformReplies == {Response(500, BadJson), Response(502, EmptyObj), FetchFailed}

\* what a caller gets when the gateway function is not reached: a dropped
\* connection, or a page of the host in place of the function's answer
HostReplies == {FetchFailed, Response(404, BadJson), Response(200, BadJson), Response(200, Null)}

\* the operations the application calls; attachments are typed Attachment[]
TypedHistoryEntries == {h \in HistoryEntries :
                          Tag(Get(h, "attachments")) = "undef"
                          \/ \A i \in 1..Len(Val(Get(h, "attachments"))) :
                               Tag(Get(Val(Get(h, "attachments"))[i], "data")) = "str"}
TypedAttachmentLists == {a \in AttachmentLists :
                           Tag(a) = "undef"
                           \/ \A i \in 1..Len(Val(a)) : Tag(Get(Val(a)[i], "data")) = "str"}
ClientOperations ==
  {Operation("classifyPrompt", x, Undef, Undef) : x \in Texts}
  \cup {Operation("generateImage", x, r, Undef) :
          x \in {Str(<<>>), Str(<<"a red fox in snow">>)}, r \in {Undef, GoodUri, BadUri}}
  \cup {Operation("convertToVideoPrompt", x, g, Undef) :
          x \in {Str(<<>>), Str(<<"a red fox in snow">>)}, g \in {Undef, Obj([duration |-> Num(5)])}}
  \cup {Operation("sendChatMessage", Arr(h), m, a) :
          h \in SeqsUpTo(TypedHistoryEntries, MaxHistory), m \in {Str(<<>>), Str(<<"hello">>)},
          a \in TypedAttachmentLists}
  \cup {Operation("getApiKeyInfo", Undef, Undef, Undef)}

(* ------------------------------ state machine --------------------------- *)

NoRequest == HttpRequest("", <<>>, Undef)
NoOperation == Operation("", Undef, Undef, Undef)

VARIABLES
  USING_GATEWAY, \* the client's mode: TRUE calls the upstream directly
  request,   \* the request onRequest was invoked with
  env,       \* env.GEMINI_API_KEY of that invocation
  gpc,       \* onRequest: "idle", "received", "fetching", "done"
  response,  \* what onRequest's promise settled with
  calls,     \* the upstream calls made while handling the request or operation
  reply,     \* the upstream's answer to the last call
  op,        \* the operation the client is running
  cpc,       \* the client: "idle", "waiting" (for the gateway), "fetching", "done"
  delivered, \* what the client's fetch of the gateway settled with
  result     \* what the operation returned or threw

vars == <<USING_GATEWAY, request, env, gpc, response, calls, reply, op, cpc, delivered, result>>

Quiet ==
  /\ request = NoRequest
  /\ env = Undef
  /\ gpc = "idle"
  /\ response = NoResponse
  /\ calls = <<>>
  /\ reply = NoResponse
  /\ op = NoOperation
  /\ cpc = "idle"
  /\ delivered = NoResponse
  /\ result = NoResult

Init == USING_GATEWAY \in BOOLEAN /\ Quiet

\* the platform invokes onRequest({request, params, env}) for a request that
\* did not come from the client adapter
Invoke ==
  /\ gpc = "idle" /\ cpc = "idle"
  /\ \E c \in GatewayCalls :
       /\ request' = c[1]
       /\ env' = c[2]
  /\ gpc' = "received"
  /\ UNCHANGED <<USING_GATEWAY, response, calls, reply, op, cpc, delivered, result>>

\* onRequest runs up to the fetch of its handler, or to its end
OnRequest ==
  /\ gpc = "received"
  /\ \E step \in {onRequestPre(request, env)} :
       IF step[1] = "call"
       THEN /\ calls' = Append(calls, step[2])
            /\ gpc' = "fetching"
            /\ response' = response
       ELSE /\ calls' = calls
            /\ gpc' = "done"
            /\ response' = Settled(step)
  /\ UNCHANGED <<USING_GATEWAY, request, env, reply, op, cpc, delivered, result>>

\* the upstream answers the gateway and the handler runs to its end
UpstreamReply ==
  /\ gpc = "fetching"
  /\ \E r \in Replies :
       /\ reply' = r
       /\ response' = Settled(onRequestPost(request, r))
  /\ gpc' = "done"
  /\ UNCHANGED <<USING_GATEWAY, request, env, calls, op, cpc, delivered, result>>

\* the application calls an operation of the adapter
ClientCall ==
  /\ gpc = "idle" /\ cpc = "idle"
  /\ \E o \in ClientOperations :
       /\ op' = o
       /\ IF USING_GATEWAY
          THEN /\ \E step \in {clientDirectPre(o)} :
                    /\ calls' = IF step[1] = "call" THEN <<step[2]>> ELSE <<>>
                    /\ cpc' = IF step[1] = "call" THEN "fetching" ELSE "done"
                    /\ result' = IF step[1] = "call" THEN NoResult ELSE Thrown(step[2])
               /\ UNCHANGED <<request, env, gpc>>
          ELSE /\ request' = clientProxyRequest(o)
               /\ env' \in CoreKeys
               /\ gpc' = "received"
               /\ cpc' = "waiting"
               /\ UNCHANGED <<calls, result>>
  /\ UNCHANGED <<USING_GATEWAY, response, reply, delivered>>

\* direct mode: the upstream answers the client and the operation ends
ClientUpstreamReply ==
  /\ cpc = "fetching"
  /\ \E r \in Replies :
       /\ reply' = r
       /\ result' = clientDirectPost(op, r)
  /\ cpc' = "done"
  /\ UNCHANGED <<USING_GATEWAY, request, env, gpc, response, calls, op, delivered>>

\* proxy mode: the gateway's answer reaches the client and the operation ends
ClientReceive ==
  /\ cpc = "waiting" /\ gpc = "done"
  /\ \E d \in (IF response.kind = "rejected" THEN PlatformReplies ELSE {response}) :
       /\ delivered' = d
       /\ result' = clientProxyPost(op, d)
  /\ cpc' = "done"
  /\ UNCHANGED <<USING_GATEWAY, request, env, gpc, response, calls, reply, op>>

\* proxy mode: the client's fetch does not reach the gateway function
GatewayUnreachable ==
  /\ cpc = "waiting" /\ gpc = "received"
  /\ \E d \in HostReplies :
       /\ delivered' = d
       /\ result' = clientProxyPost(op, d)
  /\ cpc' = "done"
  /\ gpc' = "idle"
  /\ UNCHANGED <<USING_GATEWAY, request, env, response, calls, reply, op>>

\* the invocation or operation is over; nothing is kept between calls
Complete ==
  /\ \/ cpc = "done"
     \/ cpc = "idle" /\ gpc = "done"
  /\ request' = NoRequest
  /\ env' = Undef
  /\ gpc' = "idle"
  /\ response' = NoResponse
  /\ calls' = <<>>
  /\ reply' = NoResponse
  /\ op' = NoOperation
  /\ cpc' = "idle"
  /\ delivered' = NoResponse
  /\ result' = NoResult
  /\ UNCHANGED USING_GATEWAY

Next ==
  \/ Invoke
  \/ OnRequest
  \/ UpstreamReply
  \/ ClientCall
  \/ ClientUpstreamReply
  \/ ClientReceive
  \/ GatewayUnreachable
  \/ Complete

Spec == Init /\ [][Next]_vars

(* ------------------------------- properties ----------------------------- *)

Path == PathOf(request)
Configured == Truthy(env)
Answered == gpc = "done"
IsPost(segment) == request.method = "POST" /\ Path = <<segment>>
\* body.name as the sender of the request meant it; a body that is no object
\* has no members
Field(name) == Get(request.body, name)
Empty(x) == Tag(x) \in {"undef", "null"} \/ x = Str(<<>>)
UpstreamFailed == reply.kind = "netfail" \/ (reply.kind = "response" /\ ~IsOk(reply))

\* C1: the status depends on the path segment and the method alone: an
\* unknown segment gives 404 and a known segment with a method it does not
\* accept gives 405.  Stated here for the requests that favour it most: the
\* credential is configured, the method is not OPTIONS and the body parses.
C1_RoutingByPathAndMethod ==
  (Answered /\ Configured /\ request.method # "OPTIONS" /\ request.body # BadJson)
  => /\ Path \notin KnownRoutes => response.status = 404
     /\ (Path \in PostRoutes /\ request.method # "POST") => response.status = 405
     /\ (Path = <<"health">> /\ request.method # "GET") => response.status = 405

\* the required field of the POST route addressed is missing or empty
RequiredMissing ==
  \/ IsPost("classify") /\ Empty(Field("input"))
  \/ IsPost("generate-image") /\ Empty(Field("prompt"))
  \/ IsPost("video-prompt") /\ Empty(Field("prompt"))
  \/ IsPost("chat") /\ Empty(Field("message"))
       /\ (Empty(Field("attachments")) \/ Field("attachments") = Arr(<<>>))

\* C2 as claimed: a POST whose required field is missing or empty is answered
\* 400, and no upstream call is made for it.
C2_MissingFieldIs400 ==
  (Answered /\ RequiredMissing) => (response.status = 400 /\ calls = <<>>)

\* C2 as amended: no upstream call is made for such a request at any point;
\* it is answered 400 when the credential is configured and the body is not
\* the JSON value null, 500 when the credential is not configured, and with
\* a null body the handler throws and the promise of onRequest rejects.
C2_MissingFieldNoCall ==
  RequiredMissing =>
     /\ calls = <<>> /\ gpc # "fetching" /\ reply = NoResponse
     /\ Answered =>
          IF ~Configured THEN response.kind = "response" /\ response.status = 500
          ELSE IF request.body = Null THEN response.kind = "rejected"
          ELSE response.kind = "response" /\ response.status = 400

C2_Witness ==
  /\ Answered /\ RequiredMissing /\ Configured /\ IsPost("chat")
  /\ Field("attachments") = Arr(<<>>) /\ Tag(Field("history")) = "arr"
  /\ response.status = 400

\* a {type, title, tags} object: type IMAGE or TEXT, title a string, tags a
\* list of strings
WellFormedTriple(x) ==
  /\ Tag(x) = "obj"
  /\ DOMAIN Val(x) = {"type", "title", "tags"}
  /\ Get(x, "type") \in {Str(<<"IMAGE">>), Str(<<"TEXT">>)}
  /\ Tag(Get(x, "title")) = "str"
  /\ Tag(Get(x, "tags")) = "arr"
  /\ \A i \in 1..Len(Val(Get(x, "tags"))) : Tag(Val(Get(x, "tags"))[i]) = "str"

\* C3: whatever the upstream answered, classify gives a well-formed triple:
\* the route for a classify request with a text input, and classifyPrompt in
\* both modes.
C3_ClassifyWellFormed ==
  /\ (Answered /\ IsPost("classify") /\ Tag(Field("input")) = "str" /\ reply # NoResponse)
       => (response.kind = "response" /\ response.status = 200 /\ WellFormedTriple(response.body))
  /\ (cpc = "done" /\ op.name = "classifyPrompt")
       => (result[1] = "returned" /\ WellFormedTriple(result[2]))

\* the result of an operation in direct-gateway mode when the upstream
\* answers r
DirectRun(o, r) ==
  With(clientDirectPre(o), LAMBDA step :
    IF step[1] = "call" THEN clientDirectPost(o, r) ELSE Thrown(step[2]))

\* C4: an operation run through the gateway (credential configured, gateway
\* reached and answering) ends as the same operation run in direct-gateway
\* mode against the same upstream answer.
C4_ModesAgree ==
  (~USING_GATEWAY /\ cpc = "done" /\ env = GoodKey /\ response.kind = "response"
     /\ delivered = response)
  => \A r \in (IF reply = NoResponse THEN Replies ELSE {reply}) : result = DirectRun(op, r)

\* the entries of a list of attachments, none when there is no list
Entries(x) == IF Tag(x) = "arr" THEN Val(x) ELSE <<>>
RECURSIVE Flatten(_)
Flatten(ss) == IF ss = <<>> THEN <<>> ELSE Head(ss) \o Flatten(Tail(ss))
\* the inline part an entry's data is forwarded as: none unless it is a
\* string of the form data:<mime>;base64,<payload>
Forwarded(data) ==
  IF Tag(data) = "str" /\ MatchSplits(Val(data)) # {} THEN pushed(MatchDataUri(Val(data))) ELSE <<>>
ForwardedOf(list) == Flatten([i \in 1..Len(Entries(list)) |-> Forwarded(Get(Entries(list)[i], "data"))])
\* the inline parts of a turn or of a parts list sent upstream
InlineOf(parts) == SelectSeq(Val(parts), LAMBDA q : "inlineData" \in DOMAIN Val(q))

\* C5: a chat or generate-image request that passes validation reaches the
\* upstream whatever its inline media look like, and the call carries as
\* inline parts exactly the entries whose data matches, in order.
C5_MalformedMediaDropped ==
  /\ (Answered /\ Configured /\ IsPost("chat") /\ Tag(request.body) = "obj" /\ ~RequiredMissing)
       => /\ Len(calls) = 1 /\ response.kind = "response"
          /\ LET turns == Val(Get(calls[1].payload, "contents"))
                 past == Entries(Field("history"))
             IN  /\ InlineOf(Get(turns[Len(turns)], "parts")) = ForwardedOf(Field("attachments"))
                 /\ \A i \in 1..Len(past) :
                      InlineOf(Get(turns[i], "parts")) = ForwardedOf(Get(past[i], "attachments"))
  /\ (Answered /\ Configured /\ IsPost("generate-image") /\ Tag(request.body) = "obj"
        /\ ~RequiredMissing)
       => /\ Len(calls) = 1 /\ response.kind = "response"
          /\ InlineOf(Get(Val(Get(calls[1].payload, "contents"))[1], "parts"))
               = Forwarded(Field("referenceImage"))

RECURSIVE StringsIn(_)
\* the strings a value is made of
StringsIn(v) ==
  CASE Tag(v) = "str" -> {Val(v)}
    [] Tag(v) = "arr" -> UNION {StringsIn(Val(v)[i]) : i \in 1..Len(Val(v))}
    [] Tag(v) = "obj" -> UNION {StringsIn(Val(v)[f]) : f \in DOMAIN Val(v)}
    [] OTHER -> {}
Reveals(key, v) == \E s \in StringsIn(v) : Occurs(key, s)
IsHealth == request.method = "GET" /\ Path = <<"health">>
\* the positions of a credential of n characters that its preview shows
Shown(n) == {i \in 1..n : i <= 4 \/ i > n - 4}
\* the first 4 characters, three dots, the last 4 characters
Redacted(k) ==
  [i \in 1..(Cardinality({j \in 1..Len(k) : j <= 4}) + 3 + Cardinality({j \in 1..Len(k) : j > Len(k) - 4})) |->
     IF i <= Cardinality({j \in 1..Len(k) : j <= 4}) THEN k[i]
     ELSE IF i <= Cardinality({j \in 1..Len(k) : j <= 4}) + 3 THEN "."
     ELSE k[Len(k) - (Cardinality({j \in 1..Len(k) : j <= 4}) + 3
                      + Cardinality({j \in 1..Len(k) : j > Len(k) - 4})) + i]]
\* the credential of every upstream call is the configured one, and nothing
\* but the preview of the health route carries it in a response
OnlyFromEnvOnlyInPreview ==
  /\ \A i \in 1..Len(calls) : calls[i].key = env
  /\ (Answered /\ ~IsHealth) => ~Reveals(Val(env), response.body)
  /\ (Answered /\ IsHealth)
       => /\ Get(response.body, "preview") = Str(Redacted(Val(env)))
          /\ \A f \in DOMAIN Val(response.body) \ {"preview"} :
               ~Reveals(Val(env), Val(response.body)[f])

\* C6 as claimed: for a configured credential of any length the preview
\* leaves part of it undisclosed.
C6_CredentialNeverComplete ==
  (Configured /\ gpc # "idle")
  => /\ OnlyFromEnvOnlyInPreview
     /\ (Answered /\ IsHealth) => Shown(Len(Val(env))) # 1..Len(Val(env))

\* C6 as amended: the preview leaves part of the credential undisclosed
\* when the credential is longer than 8 characters; a credential of at most
\* 8 characters is disclosed whole.
C6_CredentialOnlyRedacted ==
  (Configured /\ gpc # "idle")
  => /\ OnlyFromEnvOnlyInPreview
     /\ (Answered /\ IsHealth)
          => (Shown(Len(Val(env))) # 1..Len(Val(env)) <=> Len(Val(env)) > 8)

C6_Witness ==
  /\ Answered /\ IsHealth /\ env = GoodKey
  /\ Get(response.body, "preview") = Str(<<"A", "I", "z", "a", ".", ".", ".", "k", "k", "k", "k">>)

\* C7: GET health always answers 200 with status, length, preview and
\* message: missing when no credential is configured, invalid_format when
\* the credential does not start with AIza or holds whitespace, valid_format
\* otherwise; it makes no upstream call.
C7_HealthStatus ==
  (IsHealth /\ gpc # "idle")
  => /\ gpc \in {"received", "done"} /\ calls = <<>> /\ reply = NoResponse
     /\ Answered
         => /\ response.kind = "response" /\ response.status = 200
            /\ {"status", "length", "preview", "message"} \subseteq DOMAIN Val(response.body)
            /\ Get(response.body, "status") =
                 IF Tag(env) = "undef" \/ env = Str(<<>>) THEN Str(<<"missing">>)
                 ELSE IF \/ Len(Val(env)) < 4
                         \/ <<Val(env)[1], Val(env)[2], Val(env)[3], Val(env)[4]>> # <<"A", "I", "z", "a">>
                         \/ \E i \in 1..Len(Val(env)) : Val(env)[i] \in {" ", "\t", "\n", "\r"}
                 THEN Str(<<"invalid_format">>)
                 ELSE Str(<<"valid_format">>)

C7_Witness ==
  /\ Answered /\ IsHealth /\ Configured
  /\ StartsWith(Val(env), KeyPrefix) /\ HasWhitespace(Val(env))
  /\ Get(response.body, "status") = Str(<<"invalid_format">>)

\* the turns of a chat call for a history h and a message m: one per history
\* entry, in order, with role user kept and every other role sent as model,
\* then one user turn holding the message
ChatShape(h, m, a, payload) ==
  LET turns == Val(Get(payload, "contents"))
      past == Entries(h)
  IN  /\ Len(turns) = Len(past) + 1
      /\ \A i \in 1..Len(past) :
           /\ Get(turns[i], "role") = IF Get(past[i], "role") = Str(<<"user">>)
                                      THEN Str(<<"user">>) ELSE Str(<<"model">>)
           /\ Get(Val(Get(turns[i], "parts"))[1], "text") = Get(past[i], "text")
      /\ Get(turns[Len(turns)], "role") = Str(<<"user">>)
      /\ Get(Val(Get(turns[Len(turns)], "parts"))[1], "text") = (IF Truthy(m) THEN m ELSE Str(<<>>))
      /\ (h = Arr(<<>>) /\ m = Str(<<"hello">>) /\ Tag(a) = "undef")
           => turns = <<Obj([role |-> Str(<<"user">>),
                             parts |-> Arr(<<Obj([text |-> Str(<<"hello">>)])>>)])>>

\* C8: every chat call sent upstream, by the route and by sendChatMessage in
\* direct-gateway mode, has N+1 turns for a history of N entries, with the
\* roles mapped and the current message as the last user turn.
C8_ChatTurns ==
  /\ (IsPost("chat") /\ calls # <<>>)
       => ChatShape(Field("history"), Field("message"), Field("attachments"), calls[1].payload)
  /\ (USING_GATEWAY /\ op.name = "sendChatMessage" /\ calls # <<>>)
       => ChatShape(op.a, op.b, op.c, calls[1].payload)

C8_Witness ==
  /\ IsPost("chat") /\ calls # <<>>
  /\ Len(Entries(Field("history"))) = 2
  /\ \E i \in 1..2 : Get(Entries(Field("history"))[i], "role") \notin {Str(<<"user">>), Str(<<"model">>)}
  /\ \E i \in 1..2 : Get(Entries(Field("history"))[i], "role") = Str(<<"user">>)


\* the text part of a successful upstream answer, undefined when there is none
TextPartOf(r) == IF Tag(r.body) = "obj" THEN CandidateText(r.body) ELSE Undef
\* the upstream failed, or its answer has no text part, or the text is not
\* JSON, or it is the JSON value null
NoClassification(r) ==
  \/ r.kind = "netfail" \/ ~IsOk(r) \/ r.body = BadJson
  \/ ~Truthy(TextPartOf(r))
  \/ IsThrow(JsonParse(TextPartOf(r)))
  \/ JsonParse(TextPartOf(r)) = Ok(Null)
\* the text is JSON, not null, with none of type IMAGE, a title, tags
LacksFields(r) ==
  /\ ~NoClassification(r)
  /\ Get(JsonParse(TextPartOf(r))[2], "type") # Str(<<"IMAGE">>)
  /\ ~Truthy(Get(JsonParse(TextPartOf(r))[2], "title"))
  /\ Nullish(Get(JsonParse(TextPartOf(r))[2], "tags"))
ClassifyAnswered ==
  Answered /\ Configured /\ IsPost("classify") /\ reply # NoResponse
FirstOf(s, n) == [i \in 1..(IF Len(s) < n THEN Len(s) ELSE n) |-> s[i]]
Triple(type, title, tags) ==
  Response(200, Obj([type |-> Str(<<type>>), title |-> Str(title), tags |-> Arr(tags)]))

ErrorRoutes == {<<"generate-image">>, <<"chat">>, <<"video-prompt">>}
UpstreamAnswered == Answered /\ request.method = "POST" /\ reply # NoResponse

\* C10: when the upstream answers generate-image, chat or video-prompt with
\* a non-success status, or cannot be reached, the route answers 500 with
\* an error text holding the upstream status and body; a success answer to
\* an upstream failure comes from classify alone, which gives one.
C10_UpstreamFailureIs500 ==
  (UpstreamAnswered /\ UpstreamFailed)
  => /\ Path \in ErrorRoutes
          => /\ response.kind = "response" /\ response.status = 500
             /\ Tag(Get(response.body, "error")) = "str"
             /\ reply.kind = "response"
                  => /\ Occurs(<<ToString(reply.status)>>, Val(Get(response.body, "error")))
                     /\ Occurs(Val(reply.body), Val(Get(response.body, "error")))
     /\ IsOk(response) => Path = <<"classify">>
     /\ (Path = <<"classify">> /\ Tag(Field("input")) = "str") => IsOk(response)

C10_Witness ==
  /\ UpstreamAnswered /\ Path = <<"chat">> /\ reply.kind = "response" /\ reply.status = 503
  /\ response.status = 500

\* the upstream answered with success and a JSON body
ShapeAnswered ==
  UpstreamAnswered /\ Configured /\ reply.kind = "response" /\ IsOk(reply) /\ reply.body # BadJson
HasText(r) == Truthy(TextPartOf(r))
\* some output part of the answer carries inline data
HasInline(r) ==
  /\ Tag(r.body) = "obj"
  /\ Tag(CandidateParts(Get(r.body, "candidates"))) = "arr"
  /\ \E i \in 1..Len(Val(CandidateParts(Get(r.body, "candidates")))) :
       /\ Tag(Val(CandidateParts(Get(r.body, "candidates")))[i]) = "obj"
       /\ Truthy(Get(Val(CandidateParts(Get(r.body, "candidates")))[i], "inlineData"))

\* C11 as claimed: a successful upstream answer without a text part for
\* chat, or without an inline-data part for generate-image, is answered
\* with a 500-class error.
C11_ShapeErrorIs500 ==
  (ShapeAnswered /\ \/ Path = <<"chat">> /\ ~HasText(reply)
                    \/ Path = <<"generate-image">> /\ ~HasInline(reply))
  => (response.kind = "response" /\ response.status >= 500)

\* C11 as amended: without an inline-data part generate-image answers 500;
\* without a text part chat answers 200 with the empty text, and 500 only
\* when the upstream body is the JSON value null; sendChatMessage in
\* direct-gateway mode returns the empty text in both cases.
C11_ShapeErrors ==
  /\ (ShapeAnswered /\ Path = <<"generate-image">> /\ ~HasInline(reply))
       => /\ response.kind = "response" /\ response.status = 500
          /\ Tag(Get(response.body, "error")) = "str"
  /\ (ShapeAnswered /\ Path = <<"chat">> /\ ~HasText(reply) /\ Tag(reply.body) = "obj")
       => response = Response(200, Obj([text |-> Str(<<>>)]))
  /\ (ShapeAnswered /\ Path = <<"chat">> /\ reply.body = Null)
       => (response.kind = "response" /\ response.status = 500)
  /\ (USING_GATEWAY /\ cpc = "done" /\ op.name = "sendChatMessage"
        /\ reply.kind = "response" /\ IsOk(reply) /\ reply.body # BadJson /\ ~HasText(reply))
       => result = Returned(Str(<<>>))

C11_Witness ==
  /\ ShapeAnswered /\ Path = <<"chat">> /\ Tag(reply.body) = "obj"
  /\ Get(reply.body, "candidates") = Arr(<<>>)
  /\ response.status = 200 /\ Get(response.body, "text") = Str(<<>>)

\* the operation ended after a transport failure or a non-2xx answer: of the
\* upstream, or in proxy mode of the gateway
ClientFailure ==
  /\ cpc = "done"
  /\ \/ reply.kind = "netfail"
     \/ reply.kind = "response" /\ ~IsOk(reply)
     \/ delivered.kind = "netfail"
     \/ delivered.kind = "response" /\ ~IsOk(delivered)
ThrowingOperations == {"generateImage", "convertToVideoPrompt", "sendChatMessage"}

\* C12: in both modes classifyPrompt and getApiKeyInfo always end by
\* returning a value, a local default after a failure; generateImage,
\* convertToVideoPrompt and sendChatMessage end every transport failure and
\* non-2xx answer by throwing.
C12_ThrowOrDefault ==
  /\ (cpc = "done" /\ op.name \in {"classifyPrompt", "getApiKeyInfo"}) => result[1] = "returned"
  /\ (ClientFailure /\ op.name = "classifyPrompt")
       => /\ Get(result[2], "type") = Str(<<"TEXT">>)
          /\ Get(result[2], "tags") = Arr(<<PlaceholderTag>>)
  /\ (ClientFailure /\ op.name = "getApiKeyInfo")
       => /\ Get(result[2], "status") \in {Str(<<"error">>), Str(<<"missing">>)}
          /\ Get(result[2], "preview") = Str(<<"N/A">>)
  /\ (ClientFailure /\ op.name \in ThrowingOperations) => result[1] = "thrown"

C12_Witness ==
  /\ ClientFailure /\ ~USING_GATEWAY /\ op.name = "generateImage"
  /\ reply.kind = "response" /\ reply.status = 503
  /\ delivered.status = 500 /\ result[1] = "thrown"

\* C13: onRequest ends every request by returning a response, never by a
\* rejected promise; an error raised in a route handler is answered 500
\* "Internal server error".
C13_AlwaysResponds ==
  Answered => /\ response.kind = "response"
              /\ response.status \in {200, 204, 400, 404, 405, 500}

========================================================================
